---- MODULE Spec2Model ----
(***************************************************************************)
(* A model of the amaze crate: the packed-cell maze (src/types.rs) and the *)
(* four-way grid graph built on it (src/graph/mod.rs,                      *)
(* src/graph/four_way_grid.rs).                                            *)
(*                                                                         *)
(* The two cargo features that select the build are state that never       *)
(* changes after Init: WIDTH (maze_8x8 / maze_16x16 / maze_32x32) and      *)
(* debug (the range-checking "strict" build when TRUE, the unchecked       *)
(* "fast" build when FALSE).                                               *)
(*                                                                         *)
(* Rust values are modelled as follows.                                    *)
(*   Result<T, Error>  [tag |-> "Ok", value |-> v] / [tag |-> "Err", ...]  *)
(*   Option<T>         [tag |-> "Some", value |-> v] / [tag |-> "None"]    *)
(*   a panic           [tag |-> "Panic"], propagated by every caller       *)
(*   a number, cell or sequence returned by code that can panic            *)
(*                     [tag |-> "Ret", value |-> v]                        *)
(*   Coord1D           its u8 value                                        *)
(*   CoordXY, VectorXY [x |-> .., y |-> ..]                                *)
(*   NodeIndex<Graph>  its i16 value (the tag is a zero-size marker)       *)
(*   Edge<Graph>       [from |-> .., to |-> .., cost |-> ..]               *)
(*   Cell              the set of its bit-field flags that are set         *)
(***************************************************************************)
EXTENDS Integers, Sequences, FiniteSets, TLC

VARIABLES
    WIDTH,    \* types.rs:7-17, the grid size selected by a cargo feature
    debug,    \* the cargo feature "debug": TRUE in the strict build
    maze,     \* the Maze owned by the Graph: [start, goal, data]
    ncalls,   \* number of writes to the maze (mutators, cell writes) so far
    ret       \* the last operation and what it returned

vars == <<WIDTH, debug, maze, ncalls, ret>>

\* The grid sizes the crate can be built for (types.rs:8-13).
Widths == {8, 16, 32}

\* Bound: the number of writes to the maze (set_cell_state, set_cell_check,
\* stores through mutable_cell or data) in one behaviour.
MaxCalls == 2

\* Bound: the number of edges of a walked path.
MaxPath == 3

----------------------------------------------------------------------------
(* Integer casts *)

\* `v as u8`: truncation to the low 8 bits.
AsU8(v) == v % 256

\* `v as i8`: the low 8 bits read as two's complement.
AsI8(v) == IF v % 256 >= 128 THEN (v % 256) - 256 ELSE v % 256

\* i8::abs / i16::abs
Abs(v) == IF v < 0 THEN -v ELSE v

Ok(v) == [tag |-> "Ok", value |-> v]
Err(e) == [tag |-> "Err", error |-> e]
Some(v) == [tag |-> "Some", value |-> v]
None == [tag |-> "None"]
Panic == [tag |-> "Panic"]
Ret(v) == [tag |-> "Ret", value |-> v]

----------------------------------------------------------------------------
(* types.rs: Direction, Coord1D, CoordXY, VectorXY *)

Directions == {"North", "East", "South", "West"}

\* The order in which Graph::neighbors visits the directions.
DirectionOrder == <<"North", "East", "South", "West">>

Direction_inverted(d) ==
    CASE d = "North" -> "South"
      [] d = "East"  -> "West"
      [] d = "South" -> "North"
      [] d = "West"  -> "East"

\* impl TryFrom<VectorXY> for Direction
Direction_try_from(v) ==
    CASE v = [x |-> 0, y |-> 1]  -> Ok("North")
      [] v = [x |-> 1, y |-> 0]  -> Ok("East")
      [] v = [x |-> 0, y |-> -1] -> Ok("South")
      [] v = [x |-> -1, y |-> 0] -> Ok("West")
      [] OTHER -> Err("InvalidVector")

\* impl From<Direction> for VectorXY
VectorXY_from(d) ==
    CASE d = "North" -> [x |-> 0, y |-> 1]
      [] d = "East"  -> [x |-> 1, y |-> 0]
      [] d = "South" -> [x |-> 0, y |-> -1]
      [] d = "West"  -> [x |-> -1, y |-> 0]

\* Coord1D::MAX
Coord1D_MAX == AsU8(WIDTH) - 1

\* Coord1D::new of the build `strict` (TRUE: feature "debug").
Coord1D_new_in(strict, value) ==
    IF strict
    THEN IF value > Coord1D_MAX THEN Err("OutOfRange") ELSE Ok(value)
    ELSE Ok(value)

Coord1D_new(value) == Coord1D_new_in(debug, value)

\* CoordXY::new of the build `strict`.
CoordXY_new_in(strict, x, y) ==
    IF Coord1D_new_in(strict, x).tag = "Ok" /\ Coord1D_new_in(strict, y).tag = "Ok"
    THEN Ok([x |-> Coord1D_new_in(strict, x).value,
             y |-> Coord1D_new_in(strict, y).value])
    ELSE Err("OutOfRange")

CoordXY_new(x, y) == CoordXY_new_in(debug, x, y)

\* CoordXY::with_u8, the constructor four_way_grid.rs calls: CoordXY::new
\* under the name a later revision of types.rs gives it.
CoordXY_with_u8_in(strict, x, y) == CoordXY_new_in(strict, x, y)

\* impl Add<VectorXY> for CoordXY. The range test is written out in the
\* source and is the same in both builds.
CoordXY_add_in(strict, coord, rhs) ==
    LET new_x == coord.x + rhs.x
        new_y == coord.y + rhs.y
    IN  IF /\ new_x >= 0
           /\ new_y >= 0
           /\ AsU8(new_x) <= Coord1D_MAX
           /\ AsU8(new_y) <= Coord1D_MAX
        THEN IF CoordXY_new_in(strict, AsU8(new_x), AsU8(new_y)).tag = "Ok"
             THEN Ok(CoordXY_new_in(strict, AsU8(new_x), AsU8(new_y)).value)
             ELSE Panic
        ELSE Err("OutOfRange")

CoordXY_add(coord, rhs) == CoordXY_add_in(debug, coord, rhs)

\* impl Sub<CoordXY> for CoordXY: i8 arithmetic on the two u8 values. The
\* coordinates the graph produces are at most 31, so the difference never
\* leaves i8.
CoordXY_sub(lhs, rhs) ==
    [x |-> AsI8(AsI8(lhs.x) - AsI8(rhs.x)),
     y |-> AsI8(AsI8(lhs.y) - AsI8(rhs.y))]

----------------------------------------------------------------------------
(* types.rs: Cell and Maze *)

\* The wall flag of a direction.
WallFlag(d) ==
    CASE d = "North" -> "north"
      [] d = "East"  -> "east"
      [] d = "South" -> "south"
      [] d = "West"  -> "west"

\* The auxiliary flag of a direction.
CheckFlag(d) ==
    CASE d = "North" -> "check_north"
      [] d = "East"  -> "check_east"
      [] d = "South" -> "check_south"
      [] d = "West"  -> "check_west"

\* Cell::new(): every flag clear.
Cell_new == {}

Cell_state_by_direction(cell, d) == WallFlag(d) \in cell

Cell_check_by_direction(cell, d) == CheckFlag(d) \in cell

Cell_set_state_by_direction(cell, d, value) ==
    IF value THEN cell \cup {WallFlag(d)} ELSE cell \ {WallFlag(d)}

Cell_set_check_by_direction(cell, d, value) ==
    IF value THEN cell \cup {CheckFlag(d)} ELSE cell \ {CheckFlag(d)}

\* The indices of Maze::data.
CellIndices == 0 .. (WIDTH * WIDTH - 1)

\* Maze::new without the loop statement that walls the east column.
Maze_new_open_east(start, goal) ==
    [start |-> start,
     goal  |-> goal,
     data  |-> [i \in CellIndices |->
                  (IF i < WIDTH THEN {"south"} ELSE {})
                  \cup (IF i >= WIDTH * (WIDTH - 1) THEN {"north"} ELSE {})
                  \cup (IF i % WIDTH = 0 THEN {"west"} ELSE {})]]

\* Maze::new
Maze_new(start, goal) ==
    [start |-> start,
     goal  |-> goal,
     data  |-> [i \in CellIndices |->
                  (IF i < WIDTH THEN {"south"} ELSE {})
                  \cup (IF i >= WIDTH * (WIDTH - 1) THEN {"north"} ELSE {})
                  \cup (IF i % WIDTH = 0 THEN {"west"} ELSE {})
                  \cup (IF i % WIDTH = WIDTH - 1 THEN {"east"} ELSE {})]]

\* Maze::cell / Maze::cell_by_x_y: an index outside the array panics.
Maze_cell(m, coord) ==
    IF coord.x + coord.y * WIDTH \in DOMAIN m.data
    THEN Ret(m.data[coord.x + coord.y * WIDTH])
    ELSE Panic

\* Maze::mutable_cell / Maze::mutable_cell_by_x_y followed by a store through
\* the returned reference: the maze whose cell at coord is `cell`. One cell
\* of the array is written and no other; an index outside the array panics.
Maze_mutable_cell(m, coord, cell) ==
    IF coord.x + coord.y * WIDTH \in DOMAIN m.data
    THEN Ret([m EXCEPT !.data[coord.x + coord.y * WIDTH] = cell])
    ELSE Panic

\* Maze::set_cell_state without the update of the neighbouring cell.
Maze_set_cell_state_one_sided(m, coord, direction, state) ==
    [m EXCEPT !.data[coord.x + coord.y * WIDTH] =
        Cell_set_state_by_direction(@, direction, state)]

\* Maze::set_cell_state writing the same flag, not the inverted one, into the
\* neighbouring cell.
Maze_set_cell_state_same_flag(m, coord, direction, state) ==
    LET i    == coord.x + coord.y * WIDTH
        d1   == [m.data EXCEPT ![i] =
                    Cell_set_state_by_direction(@, direction, state)]
        next == CoordXY_add(coord, VectorXY_from(direction))
    IN  IF next.tag = "Ok"
        THEN [m EXCEPT !.data =
                [d1 EXCEPT ![next.value.x + next.value.y * WIDTH] =
                    Cell_set_state_by_direction(@, direction, state)]]
        ELSE [m EXCEPT !.data = d1]

\* Maze::set_cell_state: the maze after the call.
Maze_set_cell_state(m, coord, direction, state) ==
    LET i    == coord.x + coord.y * WIDTH
        d1   == [m.data EXCEPT ![i] =
                    Cell_set_state_by_direction(@, direction, state)]
        next == CoordXY_add(coord, VectorXY_from(direction))
    IN  IF next.tag = "Ok"
        THEN [m EXCEPT !.data =
                [d1 EXCEPT ![next.value.x + next.value.y * WIDTH] =
                    Cell_set_state_by_direction(
                        @, Direction_inverted(direction), state)]]
        ELSE [m EXCEPT !.data = d1]

\* Maze::set_cell_check: the maze after the call.
Maze_set_cell_check(m, coord, direction, state) ==
    LET i    == coord.x + coord.y * WIDTH
        d1   == [m.data EXCEPT ![i] =
                    Cell_set_check_by_direction(@, direction, state)]
        next == CoordXY_add(coord, VectorXY_from(direction))
    IN  IF next.tag = "Ok"
        THEN [m EXCEPT !.data =
                [d1 EXCEPT ![next.value.x + next.value.y * WIDTH] =
                    Cell_set_check_by_direction(
                        @, Direction_inverted(direction), state)]]
        ELSE [m EXCEPT !.data = d1]

----------------------------------------------------------------------------
(* types.rs: Maze::load_from_str and impl Display for Maze *)

\* A text (&str, String) is the sequence of the pieces split('\n') yields,
\* each piece a sequence of one-character strings; the text is its pieces
\* joined by newlines, so a text that ends in a newline has an empty last
\* piece. Every character of a maze text is one byte.

\* The bytes of the pieces lo .. hi of a text (the range is halved so that
\* the evaluation stays shallow).
RECURSIVE pieces_len(_, _, _)
pieces_len(text, lo, hi) ==
    IF lo > hi THEN 0
    ELSE IF lo = hi THEN Len(text[lo])
    ELSE pieces_len(text, lo, (lo + hi) \div 2)
             + pieces_len(text, (lo + hi) \div 2 + 1, hi)

\* str::len: the bytes of the pieces and of the newlines between them.
str_len(text) == pieces_len(text, 1, Len(text)) + Len(text) - 1

\* s.as_bytes()[i]: an index past the end panics.
byte_at(s, i) == IF i < Len(s) THEN Ret(s[i + 1]) ELSE Panic

\* The candidate widths of load_from_str, in the order they are tried.
WidthCandidates == <<32, 16, 9, 8, 4>>

\* nominal_len of load_from_str
nominal_len(w) == (4 * w + 2) * (2 * w + 1)

\* The width loop of load_from_str over WidthCandidates[k..]: the first
\* candidate whose nominal length divides into the text length once; 0 when
\* there is none.
RECURSIVE infer_width(_, _)
infer_width(len, k) ==
    IF k > Len(WidthCandidates) THEN 0
    ELSE IF len \div nominal_len(WidthCandidates[k]) = 1
    THEN WidthCandidates[k]
    ELSE infer_width(len, k + 1)

\* The body of the loop over x of a wall line, written with South in place
\* of North.
load_wall_cell_south(m, s, y, x) ==
    LET cx == Coord1D_new(AsU8(x))
        b  == byte_at(s, 2 + 4 * x)
    IN  IF cx.tag # "Ok" THEN Panic
        ELSE IF b = Panic THEN Panic
        ELSE IF b.value = "-"
        THEN Ret(Maze_set_cell_state(m, [x |-> cx.value, y |-> y], "South", TRUE))
        ELSE Ret(m)

\* load_from_str, the body of the loop over x of an even line (a wall
\* line): a '-' in the middle of the cell's segment sets the north wall.
load_wall_cell(m, s, y, x) ==
    LET cx == Coord1D_new(AsU8(x))
        b  == byte_at(s, 2 + 4 * x)
    IN  IF cx.tag # "Ok" THEN Panic
        ELSE IF b = Panic THEN Panic
        ELSE IF b.value = "-"
        THEN Ret(Maze_set_cell_state(m, [x |-> cx.value, y |-> y], "North", TRUE))
        ELSE Ret(m)

\* load_from_str, the body of the loop over x of an odd line (a corridor
\* line): '|' at the left edge sets the west wall, 'S' or 'G' in the cell
\* moves start or goal, '|' at the right edge sets the east wall.
load_corridor_cell(m, s, y, x) ==
    LET cx    == Coord1D_new(AsU8(x))
        coord == [x |-> cx.value, y |-> y]
        b0    == byte_at(s, 4 * x)
        b2    == byte_at(s, 4 * x + 2)
        b4    == byte_at(s, 4 * x + 4)
        m1    == IF b0.value = "|"
                 THEN Maze_set_cell_state(m, coord, "West", TRUE)
                 ELSE m
        m2    == IF b2.value = "S" THEN [m1 EXCEPT !.start = coord]
                 ELSE IF b2.value = "G" THEN [m1 EXCEPT !.goal = coord]
                 ELSE m1
        m3    == IF b4.value = "|"
                 THEN Maze_set_cell_state(m2, coord, "East", TRUE)
                 ELSE m2
    IN  IF cx.tag # "Ok" THEN Panic
        ELSE IF b0 = Panic \/ b2 = Panic \/ b4 = Panic THEN Panic
        ELSE Ret(m3)

\* load_from_str, the iterations lo .. hi of the loop over x of piece s, in
\* order (the range is halved so that the evaluation stays shallow).
RECURSIVE load_cells(_, _, _, _, _, _)
load_cells(m, s, even, y, lo, hi) ==
    IF lo > hi THEN Ret(m)
    ELSE IF lo = hi
    THEN IF even THEN load_wall_cell(m, s, y, lo)
         ELSE load_corridor_cell(m, s, y, lo)
    ELSE LET mid  == (lo + hi) \div 2
             left == load_cells(m, s, even, y, lo, mid)
         IN  IF left = Panic THEN Panic
             ELSE load_cells(left.value, s, even, y, mid + 1, hi)

\* load_from_str, the body of the loop over the pieces for piece s, number
\* line_no from 0: the maze after it and whether the loop leaves (`break`
\* after the corridor line of row 0). The loop has left before
\* width - 1 - line_no / 2 can be negative.
load_line(m, s, width, line_no) ==
    LET y == Coord1D_new(AsU8(width - 1 - line_no \div 2))
        r == load_cells(m, s, line_no % 2 = 0, y.value, 0, width - 1)
    IN  IF width - 1 - line_no \div 2 < 0 THEN Panic
        ELSE IF y.tag # "Ok" THEN Panic
        ELSE IF r = Panic THEN Panic
        ELSE [tag |-> "Ret", value |-> r.value,
              break |-> line_no % 2 = 1 /\ y.value = 0]

\* load_from_str, the iterations lo .. hi of the loop over the pieces of
\* the text, in order and up to the break (the range is halved so that the
\* evaluation stays shallow).
RECURSIVE load_lines(_, _, _, _, _)
load_lines(m, text, width, lo, hi) ==
    IF lo > hi THEN [tag |-> "Ret", value |-> m, break |-> FALSE]
    ELSE IF lo = hi THEN load_line(m, text[lo + 1], width, lo)
    ELSE LET mid  == (lo + hi) \div 2
             left == load_lines(m, text, width, lo, mid)
         IN  IF left = Panic THEN Panic
             ELSE IF left.break THEN left
             ELSE load_lines(left.value, text, width, mid + 1, hi)

\* Maze::load_from_str: Ret(maze), or Panic.
Maze_load_from_str(text) ==
    LET start == CoordXY_new(0, 0)
        goal  == CoordXY_new(7, 7)
        width == infer_width(str_len(text), 1)
        coord == CoordXY_new(0, AsU8(width - 1))
        r     == load_lines(Maze_new(start.value, goal.value), text, width,
                            0, Len(text) - 1)
    IN  IF start.tag # "Ok" \/ goal.tag # "Ok" THEN Panic
        ELSE IF width > WIDTH \/ width = 0 THEN Panic
        ELSE IF coord.tag # "Ok" THEN Panic
        ELSE IF r = Panic THEN Panic
        ELSE Ret(r.value)

\* The character Display writes in the middle of cell (x, y).
cell_mark(m, x, y) ==
    IF m.start = [x |-> x, y |-> y] THEN "S"
    ELSE IF m.goal = [x |-> x, y |-> y] THEN "G"
    ELSE " "

\* impl Display for Maze, with the rows written bottom-up.
Maze_fmt_bottom_up(m) ==
    [l \in 1 .. (2 * WIDTH + 2) |->
        IF l = 2 * WIDTH + 2 THEN <<>>
        ELSE IF l = 2 * WIDTH + 1
        THEN [p \in 1 .. (4 * WIDTH + 1) |-> IF (p - 1) % 4 = 0 THEN "+" ELSE "-"]
        ELSE LET y == (l - 1) \div 2
             IN  IF (l - 1) % 2 = 0
                 THEN [p \in 1 .. (4 * WIDTH + 1) |->
                          IF (p - 1) % 4 = 0 THEN "+"
                          ELSE IF Cell_state_by_direction(
                                      m.data[(p - 1) \div 4 + y * WIDTH], "North")
                          THEN "-" ELSE " "]
                 ELSE [p \in 1 .. (4 * WIDTH + 1) |->
                          IF p = 4 * WIDTH + 1 THEN "|"
                          ELSE IF (p - 1) % 4 = 0
                          THEN IF Cell_state_by_direction(
                                      m.data[(p - 1) \div 4 + y * WIDTH], "West")
                               THEN "|" ELSE " "
                          ELSE IF (p - 1) % 4 = 2
                          THEN cell_mark(m, (p - 1) \div 4, y)
                          ELSE " "]]

\* impl Display for Maze: the text written, as its pieces. Piece l (from 1)
\* is, for y from WIDTH-1 down to 0, the wall line "+---" or "+   " per cell
\* and a closing "+", then the corridor line "| m " or "  m " per cell and a
\* closing "|"; then the bottom line "+---" per cell and "+"; the last
\* newline leaves an empty piece.
Maze_fmt(m) ==
    [l \in 1 .. (2 * WIDTH + 2) |->
        IF l = 2 * WIDTH + 2 THEN <<>>
        ELSE IF l = 2 * WIDTH + 1
        THEN [p \in 1 .. (4 * WIDTH + 1) |-> IF (p - 1) % 4 = 0 THEN "+" ELSE "-"]
        ELSE LET y == WIDTH - 1 - (l - 1) \div 2
             IN  IF (l - 1) % 2 = 0
                 THEN [p \in 1 .. (4 * WIDTH + 1) |->
                          IF (p - 1) % 4 = 0 THEN "+"
                          ELSE IF Cell_state_by_direction(
                                      m.data[(p - 1) \div 4 + y * WIDTH], "North")
                          THEN "-" ELSE " "]
                 ELSE [p \in 1 .. (4 * WIDTH + 1) |->
                          IF p = 4 * WIDTH + 1 THEN "|"
                          ELSE IF (p - 1) % 4 = 0
                          THEN IF Cell_state_by_direction(
                                      m.data[(p - 1) \div 4 + y * WIDTH], "West")
                               THEN "|" ELSE " "
                          ELSE IF (p - 1) % 4 = 2
                          THEN cell_mark(m, (p - 1) \div 4, y)
                          ELSE " "]]

----------------------------------------------------------------------------
(* graph/mod.rs: NodeIndex, Edge;  graph/four_way_grid.rs: Graph *)

\* GraphBase::MAX_NODE_INDEX of the grid graph.
MAX_NODE_INDEX == WIDTH * WIDTH - 1

\* The capacity of the Vec that neighbors returns (graph/mod.rs:12).
MAX_NEIGHBORS == 8

\* The values of NodeIndexValue = i16.
MinI16 == -32768
MaxI16 == 32767

\* NodeIndex::new of the build `strict`.
NodeIndex_new_in(strict, value) ==
    IF strict
    THEN IF value > MAX_NODE_INDEX THEN Err("OutOfRange") ELSE Ok(value)
    ELSE Ok(value)

NodeIndex_new(value) == NodeIndex_new_in(debug, value)

\* Graph::coord_xy_by_node_index
coord_xy_by_node_index_in(strict, index) ==
    CoordXY_with_u8_in(strict, AsU8(index) % AsU8(WIDTH), AsU8(index) \div AsU8(WIDTH))

coord_xy_by_node_index(index) == coord_xy_by_node_index_in(debug, index)

\* Graph::vector_xy_by_node_index_pair: both conversions are unwrapped.
vector_xy_by_node_index_pair_in(strict, from, to) ==
    LET to_xy   == coord_xy_by_node_index_in(strict, to)
        from_xy == coord_xy_by_node_index_in(strict, from)
    IN  IF to_xy.tag # "Ok" \/ from_xy.tag # "Ok"
        THEN Panic
        ELSE CoordXY_sub(to_xy.value, from_xy.value)

vector_xy_by_node_index_pair(from, to) ==
    vector_xy_by_node_index_pair_in(debug, from, to)

\* Graph::node_index_diff_by_vector_xy (i16; a unit vector gives at most
\* WIDTH in magnitude)
node_index_diff_by_vector_xy(vector) == vector.x + vector.y * WIDTH

\* Graph::node_index_by_coord_xy
node_index_by_coord_xy_in(strict, coord) ==
    NodeIndex_new_in(strict, coord.x + coord.y * WIDTH)

node_index_by_coord_xy(coord) == node_index_by_coord_xy_in(debug, coord)

\* Graph::optimistic_distance returning the squared Euclidean length.
optimistic_distance_squared(strict, from, to) ==
    LET vector == vector_xy_by_node_index_pair_in(strict, from, to)
    IN  IF vector = Panic THEN Panic
        ELSE Ret(vector.x * vector.x + vector.y * vector.y)

\* Graph::optimistic_distance
optimistic_distance_in(strict, from, to) ==
    LET vector == vector_xy_by_node_index_pair_in(strict, from, to)
    IN  IF vector = Panic THEN Panic ELSE Ret(Abs(vector.x) + Abs(vector.y))

optimistic_distance(from, to) == optimistic_distance_in(debug, from, to)

\* Graph::distance
distance_in(strict, from, to) == optimistic_distance_in(strict, from, to)

distance(from, to) == distance_in(debug, from, to)

\* Edge::new: the cost is the graph's distance between the endpoints.
Edge_new_in(strict, from, to) ==
    LET cost == distance_in(strict, from, to)
    IN  IF cost = Panic
        THEN Panic
        ELSE [from |-> from, to |-> to, cost |-> cost.value]

\* Graph::edge_impl: the target index is built and unwrapped before the
\* wall flag is read.
edge_impl_in(strict, cell, direction, index) ==
    LET to == NodeIndex_new_in(strict,
                  index + node_index_diff_by_vector_xy(VectorXY_from(direction)))
        e  == Edge_new_in(strict, index, to.value)
    IN  IF to.tag # "Ok" THEN Panic
        ELSE IF ~Cell_state_by_direction(cell, direction)
             THEN IF e = Panic THEN Panic ELSE Some(e)
             ELSE None

\* Graph::agent_state_by_node_index
agent_state_by_node_index_in(strict, index, from_index) ==
    LET x == AsU8(index) % AsU8(WIDTH)
        y == AsU8(index) \div AsU8(WIDTH)
        location == CoordXY_with_u8_in(strict, x, y)
        heading  == vector_xy_by_node_index_pair_in(strict, from_index.value, index)
    IN  IF location.tag # "Ok" THEN Panic
        ELSE IF from_index = None
        THEN [location |-> location.value, local_location |-> "Center",
              heading_vector |-> [x |-> 0, y |-> 0]]
        ELSE IF heading = Panic
        THEN Panic
        ELSE [location |-> location.value, local_location |-> "Center",
              heading_vector |-> heading]

\* Graph::node_index_by_agent_state: the conversion of the location is
\* unwrapped.
node_index_by_agent_state_in(strict, agent_state) ==
    LET index == node_index_by_coord_xy_in(strict, agent_state.location)
    IN  IF agent_state.local_location # "Center" THEN Err("InvalidLocation")
        ELSE IF index.tag # "Ok" THEN Panic
        ELSE Ok(index.value)

node_index_by_agent_state(agent_state) ==
    node_index_by_agent_state_in(debug, agent_state)

\* Graph::edge
edge_in(strict, m, from, to) ==
    LET state     == agent_state_by_node_index_in(strict, from, None)
        cell      == Maze_cell(m, state.location)
        vector    == vector_xy_by_node_index_pair_in(strict, from, to)
        direction == Direction_try_from(vector)
    IN  IF state = Panic THEN Panic
        ELSE IF cell = Panic THEN Panic
        ELSE IF vector = Panic THEN Panic
        ELSE IF direction.tag = "Ok"
        THEN edge_impl_in(strict, cell.value, direction.value, from)
        ELSE None

edge(m, from, to) == edge_in(debug, m, from, to)

\* The loop of Graph::neighbors over DirectionOrder[k..4], vec being the
\* edges pushed so far; a push into a full Vec is unwrapped.
RECURSIVE neighbors_loop(_, _, _, _, _)
neighbors_loop(strict, cell, from, k, vec) ==
    IF k > Len(DirectionOrder) THEN Ret(vec)
    ELSE LET e == edge_impl_in(strict, cell, DirectionOrder[k], from)
         IN  IF e = Panic THEN Panic
             ELSE IF e.tag = "Some"
             THEN IF Len(vec) >= MAX_NEIGHBORS THEN Panic
                  ELSE neighbors_loop(strict, cell, from, k + 1,
                                      Append(vec, e.value))
             ELSE neighbors_loop(strict, cell, from, k + 1, vec)

\* Graph::neighbors
neighbors_in(strict, m, from) ==
    LET state == agent_state_by_node_index_in(strict, from, None)
        cell  == Maze_cell(m, state.location)
    IN  IF state = Panic THEN Panic
        ELSE IF cell = Panic THEN Panic
        ELSE neighbors_loop(strict, cell.value, from, 1, <<>>)

neighbors(m, from) == neighbors_in(debug, m, from)

----------------------------------------------------------------------------
(* The inputs the model draws *)

\* The cells the model edits and queries: the bottom-left corner, an
\* interior cell, the bottom-right corner and the top-right corner (the last
\* cell of the array).
CoordXYSamples ==
    {[x |-> 0, y |-> 0], [x |-> 1, y |-> 1],
     [x |-> WIDTH - 1, y |-> 0], [x |-> WIDTH - 1, y |-> WIDTH - 1]}

\* Coordinate values on one axis given to the conversions and distances:
\* both ends, the cell next to the low end and the middle.
AxisSamples == {0, 1, WIDTH \div 2, WIDTH - 1}

\* The node indices of the cells with both coordinates in AxisSamples.
AxisNodeSamples == {x + y * WIDTH : x \in AxisSamples, y \in AxisSamples}

\* The nodes the model queries: the sampled cells and the cell of the right
\* column in row 7 (the top-right corner when WIDTH = 8, the last index that
\* fits in a byte when WIDTH = 32).
NodeSamples ==
    {c.x + c.y * WIDTH : c \in CoordXYSamples \cup {[x |-> WIDTH - 1, y |-> 7]}}

\* The valid node indices.
Nodes == 0 .. MAX_NODE_INDEX

\* Targets asked of edge(from, _): the sampled nodes and the indices one
\* column or one row away from `from`.
ToSamples(from) ==
    (NodeSamples \cup {from - 1, from + 1, from - WIDTH, from + WIDTH}) \cap Nodes

\* Arguments given to NodeIndex::new: around both ends of the valid range
\* and the extremes of i16.
IndexValueSamples ==
    {MinI16, -WIDTH, -1, 0, 1, MAX_NODE_INDEX - 1, MAX_NODE_INDEX,
     MAX_NODE_INDEX + 1, MAX_NODE_INDEX + WIDTH, MaxI16}

\* Arguments given to Coord1D::new and CoordXY::new (u8).
U8Samples == {0, 1, WIDTH - 1, WIDTH, 255}

NoRet == [op |-> "new", panicked |-> FALSE]

Init ==
    /\ WIDTH \in Widths
    /\ debug \in BOOLEAN
    /\ maze = Maze_new([x |-> 0, y |-> 0], [x |-> WIDTH - 1, y |-> WIDTH - 1])
    /\ ncalls = 0
    /\ ret = NoRet

\* Maze::new(start, goal): the graph is given a newly constructed maze.
MazeNew ==
    \E sx \in AxisSamples, sy \in AxisSamples, goal \in CoordXYSamples :
        /\ ~ret.panicked
        /\ maze' = Maze_new([x |-> sx, y |-> sy], goal)
        /\ ncalls' = 0
        /\ ret' = [op |-> "Maze::new", panicked |-> FALSE,
                   start |-> [x |-> sx, y |-> sy], goal |-> goal]
        /\ UNCHANGED <<WIDTH, debug>>

\* The maze texts the model loads. A wall segment of a text of width w is
\* <<"h", x, k>>, the three dashes over column x in wall line k (0 the top
\* border, w the bottom border), or <<"v", x, r>>, the bar at the left edge
\* of column x in corridor line r (0 the top row; x = w is the right border).
Border(w) ==
    {<<"h", x, k>> : x \in 0 .. (w - 1), k \in {0, w}}
        \cup {<<"v", x, r>> : x \in {0, w}, r \in 0 .. (w - 1)}

\* The top and right border, which the example text of types.rs:362-371
\* leaves blank.
TopAndRightBorder(w) ==
    {<<"h", x, 0>> : x \in 0 .. (w - 1)} \cup {<<"v", w, r>> : r \in 0 .. (w - 1)}

\* Border segments a sampled text leaves blank: none, one segment of each
\* side, or the top and right side as in the example text.
BlankSamples(w) ==
    {{}, {<<"h", 0, 0>>}, {<<"v", w, 0>>}, {<<"h", w - 1, w>>},
     {<<"v", 0, w - 1>>}, TopAndRightBorder(w)}

\* The interior walls of the example text: over cells (0, 0) and (1, 0) and
\* right of cell (1, 0).
ExampleWalls(w) == {<<"h", 0, w - 1>>, <<"h", 1, w - 1>>, <<"v", 2, w - 1>>}

\* Interior walls a sampled text draws: none, the bar right of cell (1, 0),
\* the example's, and the example's with the segment under the top-right
\* cell.
WallSamples(w) ==
    {{}, {<<"v", 2, w - 1>>}, ExampleWalls(w),
     ExampleWalls(w) \cup {<<"h", w - 1, 1>>}}

\* The text of width w with the wall segments segs; when marked, with S in
\* the second cell of the bottom row and G in the top-right cell. extra = 0
\* is the well-formed text; 1 appends one space after the last newline; -1
\* leaves the last newline out.
MazeText(w, segs, marked, extra) ==
    [l \in 1 .. (2 * w + 1 + (IF extra < 0 THEN 0 ELSE 1)) |->
        IF l = 2 * w + 2 THEN (IF extra > 0 THEN <<" ">> ELSE <<>>)
        ELSE IF (l - 1) % 2 = 0
        THEN [p \in 1 .. (4 * w + 1) |->
                 IF (p - 1) % 4 = 0 THEN "+"
                 ELSE IF <<"h", (p - 1) \div 4, (l - 1) \div 2>> \in segs
                 THEN "-" ELSE " "]
        ELSE [p \in 1 .. (4 * w + 1) |->
                 IF (p - 1) % 4 = 0
                 THEN IF <<"v", (p - 1) \div 4, (l - 1) \div 2>> \in segs
                      THEN "|" ELSE " "
                 ELSE IF marked /\ (p - 1) % 4 = 2
                 THEN IF (p - 1) \div 4 = 1 /\ (l - 1) \div 2 = w - 1 THEN "S"
                      ELSE IF (p - 1) \div 4 = w - 1 /\ (l - 1) \div 2 = 0 THEN "G"
                      ELSE " "
                 ELSE " "]]

\* The widths of the texts loaded, and the bytes added to their length.
TextWidths == {4, 8, 9, 16, 32}
ExtraSamples == {-1, 0, 1}

\* The text the last load_from_str was given.
LoadedText ==
    MazeText(ret.w, (Border(ret.w) \ ret.blank) \cup ret.walls, ret.marked, ret.extra)

\* Maze::load_from_str(text): the graph is given the maze loaded from a text.
\* What is loaded does not depend on the maze held before; one text is
\* loaded in a behaviour. ret keeps what the text was built from.
LoadFromStr ==
    \E w \in TextWidths, marked \in BOOLEAN, extra \in ExtraSamples :
        \E blank \in BlankSamples(w), walls \in WallSamples(w) :
            LET text  == MazeText(w, (Border(w) \ blank) \cup walls, marked, extra)
                value == Maze_load_from_str(text)
            IN  /\ ret.op = "new"
                /\ maze' = IF value = Panic THEN maze ELSE value.value
                /\ ret' = [op |-> "load_from_str", panicked |-> value = Panic,
                           w |-> w, blank |-> blank, walls |-> walls,
                           marked |-> marked, extra |-> extra]
                /\ UNCHANGED <<WIDTH, debug, ncalls>>

\* maze.set_cell_state(coord, direction, state)
SetCellState ==
    \E coord \in CoordXYSamples, direction \in Directions, state \in BOOLEAN :
        /\ ~ret.panicked
        /\ ncalls < MaxCalls
        /\ maze' = Maze_set_cell_state(maze, coord, direction, state)
        /\ ncalls' = ncalls + 1
        /\ ret' = [op |-> "set_cell_state", panicked |-> FALSE]
        /\ UNCHANGED <<WIDTH, debug>>

\* The cells and directions whose check flags the model marks: an interior
\* cell and the top-right corner, towards North and East.
CheckCoordSamples == {[x |-> 1, y |-> 1], [x |-> WIDTH - 1, y |-> WIDTH - 1]}
CheckDirectionSamples == {"North", "East"}

\* maze.set_cell_check(coord, direction, state)
SetCellCheck ==
    \E coord \in CheckCoordSamples, direction \in CheckDirectionSamples,
       state \in BOOLEAN :
        /\ ~ret.panicked
        /\ ncalls < MaxCalls
        /\ maze' = Maze_set_cell_check(maze, coord, direction, state)
        /\ ncalls' = ncalls + 1
        /\ ret' = [op |-> "set_cell_check", panicked |-> FALSE]
        /\ UNCHANGED <<WIDTH, debug>>

\* The cells, directions and array indices written without the mutators:
\* the corner (0, 0) and the interior cell (1, 1) towards North and East,
\* and the second and the last element of the array.
MutableCoordSamples == {[x |-> 0, y |-> 0], [x |-> 1, y |-> 1]}
MutableDirectionSamples == {"North", "East"}
DataIndexSamples == {1, WIDTH * WIDTH - 1}

\* maze.mutable_cell(coord).set_state_by_direction(direction, value) and
\* maze.mutable_cell(coord).set_check_by_direction(direction, value): a flag
\* of one cell is written through the reference, the neighbour is not.
MutableCell ==
    \E coord \in MutableCoordSamples, direction \in MutableDirectionSamples,
       check \in BOOLEAN, value \in BOOLEAN :
        LET cell  == Maze_cell(maze, coord)
            after == IF cell = Panic THEN Panic
                     ELSE Maze_mutable_cell(
                              maze, coord,
                              IF check
                              THEN Cell_set_check_by_direction(
                                       cell.value, direction, value)
                              ELSE Cell_set_state_by_direction(
                                       cell.value, direction, value))
        IN  /\ ~ret.panicked
            /\ ncalls < MaxCalls
            /\ maze' = IF after = Panic THEN maze ELSE after.value
            /\ ncalls' = ncalls + 1
            /\ ret' = [op |-> "mutable_cell", panicked |-> after = Panic]
            /\ UNCHANGED <<WIDTH, debug>>

\* maze.data[i].set_state_by_direction(direction, value): a wall flag of one
\* element of the public array is written in place.
DataWrite ==
    \E i \in DataIndexSamples, direction \in MutableDirectionSamples,
       value \in BOOLEAN :
        /\ ~ret.panicked
        /\ ncalls < MaxCalls
        /\ maze' = [maze EXCEPT !.data[i] =
                        Cell_set_state_by_direction(@, direction, value)]
        /\ ncalls' = ncalls + 1
        /\ ret' = [op |-> "data", panicked |-> FALSE]
        /\ UNCHANGED <<WIDTH, debug>>

\* graph.edge(from, to)
Edge ==
    \E from \in NodeSamples :
        \E to \in ToSamples(from) :
            LET value == edge(maze, from, to)
            IN  /\ ~ret.panicked
                /\ ret' = [op |-> "edge", panicked |-> value = Panic,
                           from |-> from, to |-> to, value |-> value]
                /\ UNCHANGED <<WIDTH, debug, maze, ncalls>>

\* graph.neighbors(from)
Neighbors ==
    \E from \in NodeSamples :
        LET value == neighbors(maze, from)
        IN  /\ ~ret.panicked
            /\ ret' = [op |-> "neighbors", panicked |-> value = Panic,
                       from |-> from, value |-> value]
            /\ UNCHANGED <<WIDTH, debug, maze, ncalls>>

\* A search starts at node `from`: the path walked so far has no edge.
WalkStart ==
    \E from \in NodeSamples :
        /\ ~ret.panicked
        /\ ret.op # "walk"
        /\ ret' = [op |-> "walk", panicked |-> FALSE, from |-> from,
                   at |-> from, len |-> 0, cost |-> 0]
        /\ UNCHANGED <<WIDTH, debug, maze, ncalls>>

\* The search asks neighbors(at) and follows one of the edges returned.
WalkStep ==
    /\ ~ret.panicked
    /\ ret.op = "walk"
    /\ ret.len < MaxPath
    /\ LET edges == neighbors(maze, ret.at)
       IN  IF edges = Panic
           THEN ret' = [ret EXCEPT !.panicked = TRUE]
           ELSE \E k \in 1 .. Len(edges.value) :
                    ret' = [ret EXCEPT !.at = edges.value[k].to,
                                       !.len = @ + 1,
                                       !.cost = @ + edges.value[k].cost]
    /\ UNCHANGED <<WIDTH, debug, maze, ncalls>>

\* Graph::node_index_by_coord_xy(coord), then Graph::coord_xy_by_node_index
\* of the index it returned.
NodeIndexByCoordXY ==
    \E x \in AxisSamples, y \in AxisSamples :
        LET index == node_index_by_coord_xy([x |-> x, y |-> y])
        IN  /\ ~ret.panicked
            /\ ret' = [op |-> "node_index_by_coord_xy", panicked |-> FALSE,
                       coord |-> [x |-> x, y |-> y],
                       index |-> index,
                       back |-> IF index.tag = "Ok"
                                THEN coord_xy_by_node_index(index.value)
                                ELSE None]
            /\ UNCHANGED <<WIDTH, debug, maze, ncalls>>

\* The variants of CellLocalLocation.
CellLocalLocations == {"Center", "North", "East", "South", "West"}

\* Heading vectors given in an AgentState: none and north.
HeadingSamples == {[x |-> 0, y |-> 0], [x |-> 0, y |-> 1]}

\* Graph::node_index_by_agent_state(agent_state), then
\* Graph::agent_state_by_node_index of the index it returned.
NodeIndexByAgentState ==
    \E location \in CoordXYSamples, local_location \in CellLocalLocations,
       heading_vector \in HeadingSamples :
        LET agent_state == [location |-> location,
                            local_location |-> local_location,
                            heading_vector |-> heading_vector]
            index == node_index_by_agent_state(agent_state)
            back  == IF index.tag = "Ok"
                     THEN agent_state_by_node_index_in(debug, index.value, None)
                     ELSE None
        IN  /\ ~ret.panicked
            /\ ret' = [op |-> "node_index_by_agent_state",
                       panicked |-> index = Panic \/ back = Panic,
                       agent_state |-> agent_state,
                       index |-> index,
                       back |-> back]
            /\ UNCHANGED <<WIDTH, debug, maze, ncalls>>

\* Graph::distance(from, to) and Graph::optimistic_distance(from, to)
Distance ==
    \E from \in AxisNodeSamples, to \in AxisNodeSamples :
        LET d == distance(from, to)
            o == optimistic_distance(from, to)
        IN  /\ ~ret.panicked
            /\ ret' = [op |-> "distance", panicked |-> d = Panic \/ o = Panic,
                       from |-> from, to |-> to,
                       distance |-> d, optimistic_distance |-> o]
            /\ UNCHANGED <<WIDTH, debug, maze, ncalls>>

\* NodeIndex::<Graph>::new(value)
NodeIndexNew ==
    \E value \in IndexValueSamples :
        /\ ~ret.panicked
        /\ ret' = [op |-> "NodeIndex::new", panicked |-> FALSE,
                   arg |-> value, value |-> NodeIndex_new(value)]
        /\ UNCHANGED <<WIDTH, debug, maze, ncalls>>

\* Coord1D::new(value)
Coord1DNew ==
    \E value \in U8Samples :
        /\ ~ret.panicked
        /\ ret' = [op |-> "Coord1D::new", panicked |-> FALSE,
                   arg |-> value, value |-> Coord1D_new(value)]
        /\ UNCHANGED <<WIDTH, debug, maze, ncalls>>

\* CoordXY::new(x, y)
CoordXYNew ==
    \E x \in U8Samples, y \in U8Samples :
        /\ ~ret.panicked
        /\ ret' = [op |-> "CoordXY::new", panicked |-> FALSE,
                   arg |-> [x |-> x, y |-> y], value |-> CoordXY_new(x, y)]
        /\ UNCHANGED <<WIDTH, debug, maze, ncalls>>

\* coord + VectorXY::from(direction)
CoordXYAdd ==
    \E coord \in CoordXYSamples, direction \in Directions :
        /\ ~ret.panicked
        /\ ret' = [op |-> "CoordXY::add", panicked |-> FALSE,
                   coord |-> coord, direction |-> direction,
                   value |-> CoordXY_add(coord, VectorXY_from(direction))]
        /\ UNCHANGED <<WIDTH, debug, maze, ncalls>>

----------------------------------------------------------------------------
(* What the claims speak of, stated on the grid itself *)

\* The unit step of a direction.
StepX(d) == CASE d = "East" -> 1 [] d = "West" -> -1 [] OTHER -> 0
StepY(d) == CASE d = "North" -> 1 [] d = "South" -> -1 [] OTHER -> 0

Axis == 0 .. (WIDTH - 1)

\* The wall flag of cell (x, y) towards d.
Wall(x, y, d) == WallFlag(d) \in maze.data[x + y * WIDTH]

\* Cell (x, y) has a neighbour towards d inside the grid.
HasNeighbour(x, y, d) == x + StepX(d) \in Axis /\ y + StepY(d) \in Axis

----------------------------------------------------------------------------
(* The maze: SpecMaze *)

\* C1: wall symmetry. In every maze reached from Maze::new by set_cell_state
\* calls, for every cell c and direction d with c + d inside the grid, the
\* wall flag of c towards d equals the wall flag of c + d towards
\* d.inverted().
C1_WallSymmetry ==
    \A x \in Axis, y \in Axis, d \in Directions :
        HasNeighbour(x, y, d) =>
            (Wall(x, y, d) <=>
                Wall(x + StepX(d), y + StepY(d), Direction_inverted(d)))

\* C1 witness: after two calls the interior cell (1, 1) has a wall to the
\* north, seen from (1, 2) as well, and none to the east.
C1_Witness ==
    /\ ncalls = 2
    /\ ret.op = "set_cell_state"
    /\ Wall(1, 1, "North") /\ Wall(1, 2, "South")
    /\ ~Wall(1, 1, "East") /\ ~Wall(2, 1, "West")
    /\ Wall(0, 0, "North") /\ Wall(0, 1, "South")

\* C2: the perimeter stays walled. In every maze reached from Maze::new by
\* set_cell_state calls, every cell of row 0 has its south wall, every cell
\* of row WIDTH-1 its north wall, every cell of column 0 its west wall and
\* every cell of column WIDTH-1 its east wall.
C2_BoundaryWalled ==
    \A k \in Axis :
        /\ Wall(k, 0, "South")
        /\ Wall(k, WIDTH - 1, "North")
        /\ Wall(0, k, "West")
        /\ Wall(WIDTH - 1, k, "East")

----------------------------------------------------------------------------
(* The maze, both its mutators and the single-cell writes: SpecFrame *)

\* The maze m with the wall flag of cell (x, y) towards d made `value` and
\* nothing else changed.
WithWall(m, x, y, d, value) ==
    [m EXCEPT !.data[x + y * WIDTH] =
        IF value THEN @ \cup {WallFlag(d)} ELSE @ \ {WallFlag(d)}]

\* The maze set_cell_state(coord, d, value) is to leave behind: the wall of
\* coord towards d is `value`, the facing wall of the neighbour is `value`
\* when the neighbour is inside the grid, and no other flag of any cell, nor
\* start or goal, differs from m.
FrameEffect(m, coord, d, value) ==
    IF HasNeighbour(coord.x, coord.y, d)
    THEN WithWall(WithWall(m, coord.x, coord.y, d, value),
                  coord.x + StepX(d), coord.y + StepY(d),
                  Direction_inverted(d), value)
    ELSE WithWall(m, coord.x, coord.y, d, value)

\* C12: the exact effect of set_cell_state(coord, direction, value). In every
\* maze reached by set_cell_state and set_cell_check calls and by writes of
\* single cells (mutable_cell, data), symmetric or not, the call
\* completes, makes the wall flag `direction` of coord's cell `value`, makes
\* the flag direction.inverted() of the neighbour `value` when coord +
\* direction is inside the grid and touches no second cell when it is not,
\* and leaves every other wall flag, every check flag, start and goal as
\* they were.
C12_SetCellStateFrame ==
    \A coord \in CoordXYSamples, direction \in Directions, value \in BOOLEAN :
        /\ CoordXY_add(coord, VectorXY_from(direction)) # Panic
        /\ Maze_set_cell_state(maze, coord, direction, value)
               = FrameEffect(maze, coord, direction, value)

\* C12 witness: a check flag was marked on the interior cell (1, 1) and its
\* neighbour, then set_cell_state cleared the south wall of the corner cell
\* (0, 0), whose southern neighbour is outside the grid; the check flags,
\* the other walls of the corner, start and goal are as before.
C12_Witness ==
    /\ ret.op = "set_cell_state"
    /\ ncalls = 2
    /\ ~Wall(0, 0, "South")
    /\ Wall(0, 0, "West") /\ ~Wall(0, 0, "North") /\ ~Wall(0, 1, "South")
    /\ "check_north" \in maze.data[1 + 1 * WIDTH]
    /\ "check_south" \in maze.data[1 + 2 * WIDTH]
    /\ maze.start = [x |-> 0, y |-> 0]
    /\ maze.goal = [x |-> WIDTH - 1, y |-> WIDTH - 1]

----------------------------------------------------------------------------
(* Construction: SpecNew *)

\* The wall and check flags a cell can hold.
WallFlags == {WallFlag(d) : d \in Directions}
CheckFlags == {CheckFlag(d) : d \in Directions}

\* C13: the maze right after Maze::new(start, goal). start and goal are the
\* arguments; a wall flag is set exactly when it faces out of the grid (south
\* in row 0, north in row WIDTH-1, west in column 0, east in column WIDTH-1),
\* so every wall of an interior cell and every inward wall of a perimeter
\* cell is clear; no check flag is set.
C13_FreshMaze ==
    ret.op = "Maze::new" =>
        /\ maze.start = ret.start
        /\ maze.goal = ret.goal
        /\ DOMAIN maze.data = 0 .. (WIDTH * WIDTH - 1)
        /\ \A x \in Axis, y \in Axis :
               /\ \A d \in Directions : Wall(x, y, d) <=> ~HasNeighbour(x, y, d)
               /\ maze.data[x + y * WIDTH] \cap CheckFlags = {}
               /\ maze.data[x + y * WIDTH] \subseteq WallFlags

\* C13 witness: Maze::new was given a start in the right column and the goal
\* (1, 1); the corner (0, 0) is walled south and west and open north
\* and east, the top-right corner is walled north and east.
C13_Witness ==
    /\ ret.op = "Maze::new"
    /\ maze.start = [x |-> WIDTH - 1, y |-> 1]
    /\ maze.goal = [x |-> 1, y |-> 1]
    /\ maze.data[0] = {"south", "west"}
    /\ maze.data[WIDTH * WIDTH - 1] = {"north", "east"}
    /\ maze.data[1 + WIDTH] = {}

----------------------------------------------------------------------------
(* Loading a text and writing it back: SpecLoad *)

\* The first candidate width whose nominal length is exactly len; 0 when
\* there is none.
RECURSIVE ExactWidth(_, _)
ExactWidth(len, k) ==
    IF k > Len(WidthCandidates) THEN 0
    ELSE IF len = nominal_len(WidthCandidates[k]) THEN WidthCandidates[k]
    ELSE ExactWidth(len, k + 1)

\* C14: width inference of load_from_str. A text is accepted only when its
\* length is exactly (4w+2)(2w+1) for a candidate w of 32, 16, 9, 8, 4; the
\* first such w is the width the text is parsed with; the load ends in the
\* fatal condition when no candidate has exactly that length or when w is
\* above WIDTH. A text one byte longer or shorter than a nominal length is
\* never parsed.
C14_ExactLength ==
    ret.op = "load_from_str" =>
        LET t == LoadedText
            w == ExactWidth(str_len(t), 1)
        IN  IF w # 0 /\ w <= WIDTH
            THEN /\ ~ret.panicked
                 /\ LET r == load_lines(
                                 Maze_new([x |-> 0, y |-> 0], [x |-> 7, y |-> 7]),
                                 t, w, 0, Len(t) - 1)
                    IN  r # Panic /\ r.value = maze
            ELSE ret.panicked

\* The texts t and u have the same shape and the same character wherever
\* either has a wall character.
SameWalls(t, u) ==
    /\ Len(t) = Len(u)
    /\ \A l \in 1 .. Len(t) :
           LET tl == t[l]
               ul == u[l]
           IN  /\ Len(tl) = Len(ul)
               /\ \A p \in 1 .. Len(tl) :
                      (tl[p] \in {"-", "|"} \/ ul[p] \in {"-", "|"})
                          => tl[p] = ul[p]

\* C15 as stated: for every well-formed text t of width WIDTH, with any
\* combination of wall segments and side walls, blank outer border segments
\* included, the Display dump of load_from_str(t) has the wall characters of
\* t at every position.
C15_RoundTripAnyBorder ==
    (ret.op = "load_from_str" /\ ret.extra = 0 /\ ret.w = WIDTH) =>
        /\ ~ret.panicked
        /\ LET dump == Maze_fmt(maze)
               t    == LoadedText
           IN  SameWalls(dump, t)

\* C15 amended: for every well-formed text t of width WIDTH whose outer
\* border is drawn in full, with any combination of interior wall segments,
\* the Display dump of load_from_str(t) has the wall characters of t at
\* every position.
C15_RoundTripEnclosed ==
    (ret.op = "load_from_str" /\ ret.extra = 0 /\ ret.w = WIDTH
        /\ ret.blank = {}) =>
        /\ ~ret.panicked
        /\ LET dump == Maze_fmt(maze)
               t    == LoadedText
           IN  SameWalls(dump, t)

\* C15 witness: a text of width WIDTH with the full border, all the sampled
\* interior walls and both markers was loaded; the maze has the wall right
\* of (1, 0) and the start at (1, 0), and the dump shows that wall.
C15_Witness ==
    /\ ret.op = "load_from_str"
    /\ ~ret.panicked
    /\ ret.extra = 0
    /\ ret.w = WIDTH
    /\ ret.blank = {}
    /\ ret.walls = ExampleWalls(WIDTH) \cup {<<"h", WIDTH - 1, 1>>}
    /\ ret.marked
    /\ Wall(1, 0, "East")
    /\ maze.start = [x |-> 1, y |-> 0]
    /\ LET dump == Maze_fmt(maze)
       IN  dump[2 * WIDTH][9] = "|" /\ dump[2 * WIDTH][7] = "S"

\* C16: what load_from_str reads. For every well-formed text of width
\* w <= WIDTH the load returns a maze in which (a) the north wall of cell
\* (x, w-1-k) is set for every '-' over column x in the k-th wall line from
\* the top (k < w), and the west or east wall of cell (x, w-1-k) for every
\* '|' at the left or right edge of column x in the k-th corridor line; and
\* (b) walls are symmetric and the perimeter is walled, as in a fresh maze.
\* The example text of width 4 gives north at (0, 0) and north and east at
\* (1, 0).
C16_LoadedWalls ==
    (ret.op = "load_from_str" /\ ret.extra = 0 /\ ret.w <= WIDTH) =>
        /\ ~ret.panicked
        /\ LET t == LoadedText
           IN  \A k \in 0 .. (ret.w - 1), x \in 0 .. (ret.w - 1) :
                   /\ t[2 * k + 1][4 * x + 3] = "-"
                          => Wall(x, ret.w - 1 - k, "North")
                   /\ t[2 * k + 2][4 * x + 1] = "|"
                          => Wall(x, ret.w - 1 - k, "West")
                   /\ t[2 * k + 2][4 * x + 5] = "|"
                          => Wall(x, ret.w - 1 - k, "East")
        /\ C1_WallSymmetry
        /\ C2_BoundaryWalled
        /\ (ret.w = 4 /\ ret.blank = TopAndRightBorder(4)
                /\ ret.walls = ExampleWalls(4)) =>
               Wall(0, 0, "North") /\ Wall(1, 0, "North") /\ Wall(1, 0, "East")

\* C16 witness: the example text of width 4 was loaded; cells (0, 0) and
\* (1, 0) have their north wall, (1, 0) its east wall and (2, 0) the facing
\* west wall, and (2, 0) has no north wall.
C16_Witness ==
    /\ ret.op = "load_from_str"
    /\ ~ret.panicked
    /\ ret.extra = 0
    /\ ret.w = 4
    /\ ret.blank = TopAndRightBorder(4)
    /\ ret.walls = ExampleWalls(4)
    /\ Wall(0, 0, "North") /\ Wall(1, 0, "North") /\ Wall(1, 0, "East")
    /\ Wall(0, 1, "South") /\ Wall(2, 0, "West")
    /\ ~Wall(2, 0, "North")

----------------------------------------------------------------------------
(* The grid graph: Spec *)

\* The coordinates of a valid node index: x = index mod WIDTH,
\* y = index div WIDTH.
NodeX(n) == n % WIDTH
NodeY(n) == n \div WIDTH

\* `to` is one unit step from `from` towards d.
StepFrom(from, to, d) ==
    /\ NodeX(to) = NodeX(from) + StepX(d)
    /\ NodeY(to) = NodeY(from) + StepY(d)

\* The move from node `from` to node `to` is one unit cardinal step that no
\* wall of the `from` cell blocks.
OpenStep(from, to) ==
    \E d \in Directions :
        StepFrom(from, to, d) /\ ~Wall(NodeX(from), NodeY(from), d)

\* C3: edge(from, to) returns an edge if and only if `to` is one unit
\* cardinal step from `from` (x = index mod WIDTH, y = index div WIDTH) and
\* the wall flag of the `from` cell in that direction is clear; for every
\* other pair of valid nodes it returns nothing. A returned edge carries the
\* arguments as its from and to.
C3_EdgeIffOpenStep ==
    ret.op = "edge" =>
        IF OpenStep(ret.from, ret.to)
        THEN /\ ret.value.tag = "Some"
             /\ ret.value.value.from = ret.from
             /\ ret.value.value.to = ret.to
        ELSE ret.value = None

\* The targets neighbors(from) is to return: in the order North, East,
\* South, West, the node one unit step from `from` for which edge(from, _)
\* returns an edge.
RECURSIVE ExpectedNeighbors(_, _)
ExpectedNeighbors(from, k) ==
    IF k > Len(DirectionOrder) THEN <<>>
    ELSE LET d  == DirectionOrder[k]
             to == from + StepX(d) + StepY(d) * WIDTH
         IN  IF /\ HasNeighbour(NodeX(from), NodeY(from), d)
                /\ edge(maze, from, to).tag = "Some"
             THEN <<edge(maze, from, to).value>> \o ExpectedNeighbors(from, k + 1)
             ELSE ExpectedNeighbors(from, k + 1)

\* C4: for every valid node `from`, neighbors(from) is exactly the sequence,
\* in the order North, East, South, West, of the edges edge(from, to_d) that
\* exist, to_d being the node one unit step from `from` towards d; it holds
\* at most 4 edges, each to a grid-adjacent cell inside the grid over a step
\* that is not walled.
C4_NeighborsAreTheEdges ==
    ret.op = "neighbors" =>
        /\ ret.value.tag = "Ret"
        /\ ret.value.value = ExpectedNeighbors(ret.from, 1)
        /\ Len(ret.value.value) <= 4
        /\ \A k \in 1 .. Len(ret.value.value) :
               /\ ret.value.value[k].to \in Nodes
               /\ OpenStep(ret.from, ret.value.value[k].to)

\* The edges the last query returned.
ReturnedEdges ==
    IF ret.op = "edge" /\ ret.value.tag = "Some" THEN {ret.value.value}
    ELSE IF ret.op = "neighbors" /\ ret.value.tag = "Ret"
    THEN {ret.value.value[k] : k \in 1 .. Len(ret.value.value)}
    ELSE {}

\* C8: every edge returned by edge(from, to) or held by neighbors(from) has
\* cost distance(edge.from, edge.to), and that cost is 1.
C8_EdgeCostIsOne ==
    \A e \in ReturnedEdges :
        /\ distance(e.from, e.to) = Ret(e.cost)
        /\ e.cost = 1

\* C10: the strict and the fast build agree on in-range inputs. Coord1D::new,
\* CoordXY::new, CoordXY + VectorXY and NodeIndex::new return the same in
\* both, and edge(from, to) and neighbors(from) on the same maze return the
\* same in both, neither build aborting where the other returns.
C10_StrictFastAgree ==
    /\ \A v \in Axis : Coord1D_new_in(TRUE, v) = Coord1D_new_in(FALSE, v)
    /\ \A c \in CoordXYSamples :
           /\ CoordXY_new_in(TRUE, c.x, c.y) = CoordXY_new_in(FALSE, c.x, c.y)
           /\ \A d \in Directions :
                  CoordXY_add_in(TRUE, c, VectorXY_from(d))
                      = CoordXY_add_in(FALSE, c, VectorXY_from(d))
    /\ \A n \in NodeSamples : NodeIndex_new_in(TRUE, n) = NodeIndex_new_in(FALSE, n)
    /\ ret.op = "edge" =>
           edge_in(TRUE, maze, ret.from, ret.to) = edge_in(FALSE, maze, ret.from, ret.to)
    /\ ret.op = "neighbors" =>
           neighbors_in(TRUE, maze, ret.from) = neighbors_in(FALSE, maze, ret.from)

\* C11: graph queries never abort on valid input. In the strict build, for
\* every valid node and every maze reached from Maze::new by set_cell_state
\* calls, edge(from, to) and neighbors(from) return normally, and so do
\* distance, optimistic_distance and agent_state_by_node_index (with and
\* without a previous node); OutOfRange never becomes a panic.
C11_QueriesReturn ==
    debug =>
        /\ ret.op \in {"edge", "neighbors"} => ~ret.panicked
        /\ \A a \in NodeSamples :
               /\ agent_state_by_node_index_in(TRUE, a, None) # Panic
               /\ \A b \in NodeSamples :
                      /\ distance_in(TRUE, a, b) # Panic
                      /\ optimistic_distance_in(TRUE, a, b) # Panic
                      /\ agent_state_by_node_index_in(TRUE, b, Some(a)) # Panic

\* The targets of the edges a neighbors call returned; none when it
\* panicked.
Targets(value) ==
    IF value.tag = "Ret"
    THEN {value.value[k].to : k \in 1 .. Len(value.value)}
    ELSE {}

\* C18: the graph is undirected in every maze reached from Maze::new by
\* set_cell_state calls. For valid nodes a and b, edge(a, b) returns an edge
\* if and only if edge(b, a) does, and b is a target in neighbors(a) if and
\* only if a is a target in neighbors(b).
C18_Undirected ==
    /\ ret.op = "edge" =>
           (ret.value.tag = "Some" <=> edge(maze, ret.to, ret.from).tag = "Some")
    /\ ret.op = "neighbors" =>
           \A b \in (ToSamples(ret.from) \cup Targets(ret.value)) \cap Nodes :
               b \in Targets(ret.value)
                   <=> ret.from \in Targets(neighbors(maze, b))

----------------------------------------------------------------------------
(* A search walking the graph: SpecWalk *)

\* C6: the heuristic is admissible. For every path n0, ..., nk in which each
\* step is an edge returned by neighbors(n_i), with n0 and nk valid nodes,
\* optimistic_distance(n0, nk) is at most the sum of the costs of the path's
\* edges.
C6_Admissible ==
    (ret.op = "walk" /\ ret.at \in Nodes) =>
        /\ optimistic_distance(ret.from, ret.at).tag = "Ret"
        /\ optimistic_distance(ret.from, ret.at).value <= ret.cost

\* C6 witness: in an edited maze a path of three edges has come back next to
\* its start, so the heuristic is strictly below the cost of the path.
C6_Witness ==
    /\ ret.op = "walk"
    /\ ncalls > 0
    /\ ret.len = 3
    /\ ret.at \in Nodes
    /\ optimistic_distance(ret.from, ret.at) = Ret(1)
    /\ ret.cost = 3

----------------------------------------------------------------------------
(* Conversions and distances: SpecPure *)

\* C5: index/coordinate round trip. For all (x, y) with 0 <= x, y < WIDTH,
\* node_index_by_coord_xy((x, y)) is the index x + y*WIDTH and
\* coord_xy_by_node_index of that index is (x, y) again.
C5_RoundTrip ==
    ret.op = "node_index_by_coord_xy" =>
        /\ ret.index = Ok(ret.coord.x + ret.coord.y * WIDTH)
        /\ ret.back = Ok(ret.coord)

\* |ax - bx| + |ay - by| of two valid nodes.
Manhattan(a, b) == Abs(NodeX(a) - NodeX(b)) + Abs(NodeY(a) - NodeY(b))

\* C7: for all valid nodes a, b, distance(a, b) and optimistic_distance(a, b)
\* both are the Manhattan distance of their coordinates (x = index mod WIDTH,
\* y = index div WIDTH); so optimistic_distance(a, b) <= distance(a, b), and
\* both are 1 when a and b differ by one unit cardinal vector.
C7_DistanceIsManhattan ==
    ret.op = "distance" =>
        /\ ret.distance = Ret(Manhattan(ret.from, ret.to))
        /\ ret.optimistic_distance = Ret(Manhattan(ret.from, ret.to))

\* C17: for every AgentState with a location (x, y) inside the grid,
\* node_index_by_agent_state returns InvalidLocation exactly when
\* local_location is North, East, South or West, whatever the location and
\* heading; when it is Center it returns the index x + y*WIDTH, and
\* agent_state_by_node_index of that index has the same location and
\* local_location Center.
C17_AgentStateIndex ==
    ret.op = "node_index_by_agent_state" =>
        IF ret.agent_state.local_location = "Center"
        THEN /\ ret.index = Ok(ret.agent_state.location.x
                                + ret.agent_state.location.y * WIDTH)
             /\ ret.back # Panic
             /\ ret.back.location = ret.agent_state.location
             /\ ret.back.local_location = "Center"
        ELSE ret.index = Err("InvalidLocation")

\* C9: in the strict build NodeIndex::new(v) returns OutOfRange for every v
\* outside [0, MAX_NODE_INDEX], above it or below 0, and a NodeIndex of
\* value v for every v inside.
C9_NodeIndexRange ==
    (debug /\ ret.op = "NodeIndex::new") =>
        IF ret.arg \in Nodes
        THEN ret.value = Ok(ret.arg)
        ELSE ret.value = Err("OutOfRange")

----------------------------------------------------------------------------
(* The specifications *)

\* The maze and its one wall mutator.
NextMaze == SetCellState

SpecMaze == Init /\ [][NextMaze]_vars

\* The construction of a maze from a start and a goal.
NextNew == MazeNew

SpecNew == Init /\ [][NextNew]_vars

\* The loading of a maze from a text.
NextLoad == LoadFromStr

SpecLoad == Init /\ [][NextLoad]_vars

\* The maze with its wall mutator, its check-flag mutator and the writes of
\* single cells through mutable_cell and through the public array.
NextFrame == SetCellState \/ SetCellCheck \/ MutableCell \/ DataWrite

SpecFrame == Init /\ [][NextFrame]_vars

\* The grid graph over a maze that is being edited.
Next == SetCellState \/ Edge \/ Neighbors

Spec == Init /\ [][Next]_vars

\* A search walking the graph edge by edge. A path lies in one maze: the
\* maze is edited before the search starts and not while it walks.
SetCellStateBeforeWalk == ret.op # "walk" /\ SetCellState

NextWalk == SetCellStateBeforeWalk \/ WalkStart \/ WalkStep

SpecWalk == Init /\ [][NextWalk]_vars

\* The conversions and distances, which read no maze state.
NextPure ==
    \/ NodeIndexByCoordXY
    \/ NodeIndexByAgentState
    \/ Distance
    \/ NodeIndexNew
    \/ Coord1DNew
    \/ CoordXYNew
    \/ CoordXYAdd

SpecPure == Init /\ [][NextPure]_vars

====
